---- MODULE Spec2Model ----
(***************************************************************************)
(* CamStudio: the camera state store (hooks/useCameraControls.ts), the     *)
(* prompt compiler (buildCameraPrompt), the generation service             *)
(* (services/geminiService.ts) and the application flow (App.tsx).         *)
(*                                                                         *)
(* Number representation.  rotate is held in tenths of a degree            *)
(* (90 degrees = 900), tilt in thousandths (1.0 = 1000), forward in whole  *)
(* units.  A drag of dx pixels adds dx * 0.4 degrees = 4 * dx tenths, a    *)
(* drag of dy pixels subtracts dy * 0.008 = 8 * dy thousandths.            *)
(* A string built by the code is modelled by the sequence of its parts,    *)
(* so that two strings are equal exactly when the sequences are.           *)
(***************************************************************************)
EXTENDS Integers, Sequences, FiniteSets, TLC

VARIABLES
    state,      \* useCameraControls: current CameraControlState
    past,       \* useCameraControls: undo stack, oldest first
    future,     \* useCameraControls: redo stack, next first
    trail,      \* history variable: the last operations on the store
    compiled,   \* the string returned by the last buildCameraPrompt call
    svc,        \* a generateImage call made against a scripted service
    app,        \* which App component of App.tsx is mounted
    aistudio,   \* whether the host defines window.aistudio
    apiKey,     \* process.env.API_KEY, the credential the host provides
    sourceImage,    \* App: an image is loaded
    quality,        \* App: settings.quality
    apiKeyReady,    \* App: "null", "true" or "false"
    checkPending,   \* App: the mount effect awaits hasSelectedApiKey()
    bannerDialog,   \* App: the banner's handleSelectKey awaits openSelectKey()
    isGenerating,   \* App
    history,        \* App: GenerationResult[], most recent first
    result,         \* App: the result shown
    error,          \* App: the error shown, "null" when none
    retrySeconds,   \* App: the countdown set by the retry callback
    flows,      \* the startGenerationFlow calls that have not returned
    started,    \* number of startGenerationFlow calls so far
    budget,     \* user actions still to be explored
    recorded,   \* history variable: results recorded since history was cleared
    finished    \* history variable: the generateImage call that settled last

camVars == <<state, past, future, trail>>
appVars == <<app, aistudio, apiKey, sourceImage, quality, apiKeyReady, checkPending,
             bannerDialog, isGenerating, history, result, error, retrySeconds,
             flows, started, budget, recorded, finished>>
vars == <<state, past, future, trail, compiled, svc, app, aistudio, apiKey,
          sourceImage, quality, apiKeyReady, checkPending, bannerDialog, isGenerating, history,
          result, error, retrySeconds, flows, started, budget, recorded, finished>>

-----------------------------------------------------------------------------
(* Bounds of the model *)

MaxPast == 2        \* store operations are explored while past is shorter
TrailDepth == 3     \* operations remembered by the history variable

-----------------------------------------------------------------------------
(* constants.ts *)

DEFAULT_CAMERA_STATE ==
    [rotate |-> 0, forward |-> 0, tilt |-> 0, wideAngle |-> FALSE, floating |-> FALSE]

ROTATE_LIMITS == [min |-> -900, max |-> 900]
FORWARD_LIMITS == [min |-> 0, max |-> 10]
TILT_LIMITS == [min |-> -1000, max |-> 1000]

Cam(r, f, t, w, fl) ==
    [rotate |-> r, forward |-> f, tilt |-> t, wideAngle |-> w, floating |-> fl]

PRESET_LIST ==
    << [id |-> "default",        state |-> DEFAULT_CAMERA_STATE],
       [id |-> "wide-orbit",     state |-> Cam(450, 3, 100, FALSE, FALSE)],
       [id |-> "top-down",       state |-> Cam(0, 0, 1000, TRUE, FALSE)],
       [id |-> "macro",          state |-> Cam(0, 9, 0, FALSE, FALSE)],
       [id |-> "low-angle",      state |-> Cam(0, 5, -800, TRUE, FALSE)],
       [id |-> "cinematic-zoom", state |-> Cam(0, 6, 0, FALSE, FALSE)] >>

-----------------------------------------------------------------------------
(* Partial<CameraControlState>: the keys present and their values.  The    *)
(* value of an absent key is never read; it is kept at the default so that *)
(* equal partial objects are equal records.                                *)

CameraKeys == {"rotate", "forward", "tilt", "wideAngle", "floating"}

Partial(keys, vals) ==
    [keys |-> keys,
     vals |-> [rotate    |-> IF "rotate" \in keys THEN vals.rotate ELSE 0,
               forward   |-> IF "forward" \in keys THEN vals.forward ELSE 0,
               tilt      |-> IF "tilt" \in keys THEN vals.tilt ELSE 0,
               wideAngle |-> IF "wideAngle" \in keys THEN vals.wideAngle ELSE FALSE,
               floating  |-> IF "floating" \in keys THEN vals.floating ELSE FALSE]]

NoArg == Partial({}, DEFAULT_CAMERA_STATE)
Whole(s) == Partial(CameraKeys, s)
OnlyRotate(v) == Partial({"rotate"}, [DEFAULT_CAMERA_STATE EXCEPT !.rotate = v])
OnlyForward(v) == Partial({"forward"}, [DEFAULT_CAMERA_STATE EXCEPT !.forward = v])
OnlyTilt(v) == Partial({"tilt"}, [DEFAULT_CAMERA_STATE EXCEPT !.tilt = v])
OnlyWideAngle(v) == Partial({"wideAngle"}, [DEFAULT_CAMERA_STATE EXCEPT !.wideAngle = v])
OnlyFloating(v) == Partial({"floating"}, [DEFAULT_CAMERA_STATE EXCEPT !.floating = v])

Abs(x) == IF x < 0 THEN -x ELSE x
Min(a, b) == IF a < b THEN a ELSE b
Max(a, b) == IF a > b THEN a ELSE b

\* Array.prototype.slice(-n): the last n elements
SliceLast(s, n) == IF Len(s) <= n THEN s ELSE SubSeq(s, Len(s) - n + 1, Len(s))

\* Array.prototype.slice(0, n): the first n elements
SliceFirst(s, n) == IF Len(s) <= n THEN s ELSE SubSeq(s, 1, n)

-----------------------------------------------------------------------------
(* useCameraControls.ts: the store.  Each operation is a function from the *)
(* store (state, past, future) to the store after the handler has run.     *)

Store(s, p, f) == [state |-> s, past |-> p, future |-> f]

\* { ...prev, ...updates }
Merge(prev, u) ==
    [rotate    |-> IF "rotate" \in u.keys THEN u.vals.rotate ELSE prev.rotate,
     forward   |-> IF "forward" \in u.keys THEN u.vals.forward ELSE prev.forward,
     tilt      |-> IF "tilt" \in u.keys THEN u.vals.tilt ELSE prev.tilt,
     wideAngle |-> IF "wideAngle" \in u.keys THEN u.vals.wideAngle ELSE prev.wideAngle,
     floating  |-> IF "floating" \in u.keys THEN u.vals.floating ELSE prev.floating]

\* Object.entries(updates).some(([key, value]) => prev[key] !== value)
hasChanged(prev, u) == \E k \in u.keys : prev[k] /= u.vals[k]

PastLimit == 50

\* a slip: the push and the clearing of future happen without the test
updateState_always(st, u) ==
    Store(Merge(st.state, u), SliceLast(Append(st.past, st.state), PastLimit), <<>>)

updateState(st, u) ==
    IF hasChanged(st.state, u)
    THEN Store(Merge(st.state, u), SliceLast(Append(st.past, st.state), PastLimit), <<>>)
    ELSE Store(Merge(st.state, u), st.past, st.future)

\* undo returns early when past is empty
canUndo(st) == Len(st.past) > 0

\* a slip: the oldest entry of past is restored instead of the newest
undo_oldest(st) ==
    Store(st.past[1],
          SubSeq(st.past, 1, Len(st.past) - 1),
          <<st.state>> \o st.future)

undo(st) ==
    Store(st.past[Len(st.past)],
          SubSeq(st.past, 1, Len(st.past) - 1),
          <<st.state>> \o st.future)

\* redo returns early when future is empty
canRedo(st) == Len(st.future) > 0

redo(st) ==
    Store(st.future[1], Append(st.past, st.state), Tail(st.future))

\* a slip: the two toggles survive the reset
reset_numeric(st) ==
    Store([DEFAULT_CAMERA_STATE EXCEPT !.wideAngle = st.state.wideAngle,
                                       !.floating = st.state.floating],
          Append(st.past, st.state), <<>>)

reset(st) ==
    Store(DEFAULT_CAMERA_STATE, Append(st.past, st.state), <<>>)

-----------------------------------------------------------------------------
(* useCameraControls.ts: buildCameraPrompt.  The returned string is the    *)
(* sequence of its segments (joined by " " in the code); a segment is its  *)
(* fixed text, named by its leading tag, with the number and the word the  *)
(* template interpolates.                                                  *)

Seg(tag, num, word) == [tag |-> tag, num |-> num, word |-> word]

DollyZoomPrompt == << Seg("DOLLY_ZOOM_RECONSTRUCTION", 0, "") >>
NoCameraMovement == << Seg("no camera movement", 0, "") >>

\* the condition of the special case checked first
isDollyZoom(s) ==
    s.wideAngle /\ s.forward > 6 /\ Abs(s.rotate) < 100 /\ Abs(s.tilt) < 200

\* the segments pushed, in order, when the special case does not apply
segments(s) ==
    LET levitation ==
            IF s.floating THEN << Seg("PHYSICS_OVERRIDE", 0, "") >> ELSE <<>>
        orbit ==
            IF s.rotate /= 0
            THEN << Seg("AZIMUTH_TRANSFORM", Abs(s.rotate),
                        IF s.rotate > 0 THEN "clockwise" ELSE "counter-clockwise") >>
            ELSE <<>>
        dolly ==
            IF s.forward > 8 THEN << Seg("MACRO_FOCUS", 0, "") >>
            ELSE IF s.forward > 3 THEN << Seg("DOLLY_IN", 10 - s.forward, "m") >>
            ELSE <<>>
        pitch ==
            IF s.tilt > 500 THEN << Seg("ZENITH_PERSPECTIVE", 0, "") >>
            ELSE IF s.tilt < -500 THEN << Seg("LOW_ANGLE_HERO", 0, "") >>
            ELSE <<>>
        optics ==
            IF s.wideAngle THEN << Seg("OPTICS", 14, "ultra-wide") >>
            ELSE << Seg("OPTICS", 85, "telephoto") >>
    IN levitation \o orbit \o dolly \o pitch \o optics

\* a slip: the special case is tested after the levitation segment is pushed
\* and the instruction is pushed instead of returned
buildCameraPrompt_late(s) ==
    IF isDollyZoom(s)
    THEN (IF s.floating THEN << Seg("PHYSICS_OVERRIDE", 0, "") >> ELSE <<>>)
             \o DollyZoomPrompt
    ELSE IF Len(segments(s)) > 0 THEN segments(s) ELSE NoCameraMovement

buildCameraPrompt(s) ==
    IF isDollyZoom(s)
    THEN DollyZoomPrompt
    ELSE IF Len(segments(s)) > 0 THEN segments(s) ELSE NoCameraMovement

\* a slip: the string also depends on how many states the undo stack holds
generatedPrompt_stacked ==
    IF Len(past) > 0 THEN NoCameraMovement ELSE buildCameraPrompt(state)

\* useMemo(() => buildCameraPrompt(state), [state])
generatedPrompt == buildCameraPrompt(state)

-----------------------------------------------------------------------------
(* services/geminiService.ts: generateImage.                               *)
(*                                                                         *)
(* What the service answers to one generateContent call: a response with   *)
(* an ordered list of parts and optional grounding chunks, or an exception *)
(* with a message.                                                         *)

MAX_RETRIES == 3
INITIAL_BACKOFF == 2000

InlinePart(data) == [kind |-> "inlineData", data |-> data]
TextPart(text) == [kind |-> "text", data |-> text]

Undefined == [defined |-> FALSE, items |-> <<>>]
Chunks(items) == [defined |-> TRUE, items |-> items]
\* GroundingChunk: the key that is set (web or maps) and its uri
Web(uri) == [kind |-> "web", uri |-> uri]
Maps(uri) == [kind |-> "maps", uri |-> uri]
Defined(x) == [defined |-> TRUE, items |-> x]

Response(parts, chunks) ==
    [kind |-> "response", message |-> "", parts |-> parts, chunks |-> chunks]
Failure(message) ==
    [kind |-> "error", message |-> message, parts |-> <<>>, chunks |-> Undefined]

\* messages of exceptions, with the substrings of each that the code or the
\* specification looks for (String.prototype.includes is case-sensitive)
Msg429 == "got status: 429 Too Many Requests"
MsgQUOTA == "QUOTA_EXCEEDED"
MsgQuota == "You exceeded your current quota"
MsgNotFound == "Requested entity was not found."
MsgApiKey == "API key not valid. Please pass a valid API key."
MsgFetch == "fetch failed"
MsgSafety == "Response was blocked due to SAFETY"
MsgEmpty == "EMPTY_IMAGE_RESPONSE"

Contained(msg) ==
    {msg} \cup
    CASE msg = Msg429 -> {"429"}
      [] msg = MsgQUOTA -> {"QUOTA"}
      [] msg = MsgQuota -> {"quota"}
      [] msg = MsgNotFound -> {"Requested entity was not found", "entity was not found",
                               "not found"}
      [] msg = MsgApiKey -> {"API key"}
      [] msg = MsgSafety -> {"SAFETY", "blocked"}
      [] OTHER -> {}

\* message.includes(sub)
Includes(msg, sub) == sub \in Contained(msg)

RECURSIVE Pow2(_)
Pow2(n) == IF n = 0 THEN 1 ELSE 2 * Pow2(n - 1)

\* Math.ceil(a / b) for positive b
CeilDiv(a, b) == (a + b - 1) \div b

\* a slip: the payload is passed on without the data URL prefix
DataUrl_bare(data) == <<data>>

\* `data:image/png;base64,${part.inlineData.data}`
DataUrl(data) == <<"data:image/png;base64,", data>>

\* the loop over candidate.content.parts: every inline part assigns imageUrl
imageUrlOf(parts) ==
    LET inline == SelectSeq(parts, LAMBDA p : p.kind = "inlineData")
    IN IF inline = <<>> THEN <<>> ELSE DataUrl(inline[Len(inline)].data)

RECURSIVE textOf(_)
\* modelResponse += part.text, for the parts without inlineData and with a
\* non-empty text
textOf(parts) ==
    IF parts = <<>> THEN <<>>
    ELSE (IF Head(parts).kind = "text" /\ Head(parts).data /= ""
          THEN <<Head(parts).data>> ELSE <<>>) \o textOf(Tail(parts))

RECURSIVE trimStart(_)
\* String.prototype.trim on a text held as a sequence of fragments: the
\* blank fragments at both ends go
trimStart(t) == IF t /= <<>> /\ Head(t) = " " THEN trimStart(Tail(t)) ELSE t

RECURSIVE trimEnd(_)
trimEnd(t) ==
    IF t /= <<>> /\ t[Len(t)] = " " THEN trimEnd(SubSeq(t, 1, Len(t) - 1)) ELSE t

trim(t) == trimEnd(trimStart(t))

\* the credentials the host provides, numbered in the order of their use
MaxKeys == 2        \* credentials explored
InitialKey == 1

\* a key of an object that is not set
Absent == "undefined"

DEFAULT_SETTINGS ==
    [seed |-> 0, quality |-> "flash", imageSize |-> "1K",
     creativeContext |-> "iPhone 15 Pro, natural daylight, photorealistic, 4k, retail photography"]

isPro(settings) == settings.quality = "pro"

modelName(settings) ==
    IF isPro(settings) THEN "gemini-3-pro-image-preview" ELSE "gemini-2.5-flash-image"

\* a slip: the stability line is left out of the template
textPart_unlocked(cameraPrompt, settings) ==
    [task |-> "[RECONSTRUCTION_TASK]",
     telemetry |-> cameraPrompt,
     seed |-> settings.seed,
     stability |-> Absent,
     context |-> settings.creativeContext]

\* the text part of the request, one field for each line of the template
textPart(cameraPrompt, settings) ==
    [task |-> "[RECONSTRUCTION_TASK]",
     telemetry |-> cameraPrompt,
     seed |-> settings.seed,
     stability |-> "CRITICAL IDENTITY LOCK",
     context |-> IF settings.creativeContext \in {"", Absent}
                 THEN "High-fidelity spatial reconstruction"
                 ELSE settings.creativeContext]

\* a slip: the resolution and the search tool are set for every quality
config_always(settings) ==
    [aspectRatio |-> "1:1",
     systemInstruction |-> "SYSTEM_INSTRUCTION",
     imageSize |-> IF settings.imageSize \in {"", Absent} THEN "1K" ELSE settings.imageSize,
     tools |-> Defined(<<"googleSearch">>)]

\* the config object of the request
config(settings) ==
    [aspectRatio |-> "1:1",
     systemInstruction |-> "SYSTEM_INSTRUCTION",
     imageSize |-> IF isPro(settings)
                   THEN (IF settings.imageSize \in {"", Absent}
                         THEN "1K" ELSE settings.imageSize)
                   ELSE Absent,
     tools |-> IF isPro(settings) THEN Defined(<<"googleSearch">>) ELSE Undefined]

\* a slip: the client is built once, with the credential of that moment
Request_cached(cameraPrompt, settings) ==
    [apiKey |-> InitialKey,
     model |-> modelName(settings),
     text |-> textPart(cameraPrompt, settings),
     config |-> config(settings)]

\* what one loop iteration sends: a client built from the credential of the
\* moment, the model name, the text part and the config
Request(cameraPrompt, settings) ==
    [apiKey |-> apiKey,
     model |-> modelName(settings),
     text |-> textPart(cameraPrompt, settings),
     config |-> config(settings)]

NoValue == [imageUrl |-> <<>>, modelResponse |-> <<>>, groundingChunks |-> Undefined]

\* one generateImage call: where it is suspended (at), the loop variable,
\* lastError, the value it resolved with, whether the caller passed onRetry;
\* and three logs: the number of generateContent calls made, the seconds
\* passed to onRetry, and the answers received; its arguments and the
\* requests it has sent
NewCall(onRetry) ==
    [at |-> "request", attempt |-> 0, lastError |-> "", value |-> NoValue,
     onRetry |-> onRetry, calls |-> 1, waits |-> <<>>, log |-> <<>>,
     cameraPrompt |-> <<>>, settings |-> DEFAULT_SETTINGS, sent |-> <<>>]

\* generateImage(sourceImage, cameraPrompt, settings, onRetry) up to its
\* first await
generateImage(cameraPrompt, settings, onRetry) ==
    [NewCall(onRetry) EXCEPT !.cameraPrompt = cameraPrompt,
                             !.settings = settings,
                             !.sent = <<Request(cameraPrompt, settings)>>]

\* a slip: a failed fetch is taken for a rate limit as well
isRateLimit_orFetch(msg) ==
    Includes(msg, "429") \/ Includes(msg, "QUOTA") \/ Includes(msg, "fetch failed")

isRateLimit(msg) == Includes(msg, "429") \/ Includes(msg, "QUOTA")

waitTime(attempt) == INITIAL_BACKOFF * Pow2(attempt)

\* a slip: lastError keeps the error of the first failed attempt
caught_first(c, msg) ==
    LET e == IF c.lastError = "" THEN msg ELSE c.lastError
    IN IF Includes(msg, "429") \/ Includes(msg, "QUOTA")
       THEN IF c.attempt < MAX_RETRIES - 1
            THEN [c EXCEPT !.at = "sleep", !.lastError = e,
                           !.waits = IF c.onRetry
                                     THEN Append(@, CeilDiv(INITIAL_BACKOFF * Pow2(c.attempt), 1000))
                                     ELSE @]
            ELSE [c EXCEPT !.at = "rejected", !.lastError = e]
       ELSE [c EXCEPT !.at = "rejected", !.lastError = e]

\* the catch block: retry a rate-limited attempt that is not the last one,
\* otherwise leave the loop and throw lastError
caught(c, msg) ==
    IF isRateLimit(msg) /\ c.attempt < MAX_RETRIES - 1
    THEN [c EXCEPT !.at = "sleep", !.lastError = msg,
                   !.waits = IF c.onRetry
                             THEN Append(@, CeilDiv(waitTime(c.attempt), 1000))
                             ELSE @]
    ELSE [c EXCEPT !.at = "rejected", !.lastError = msg]

\* a slip: a response without image resolves with an empty imageUrl
replied_lenient(c, reply) ==
    LET d == [c EXCEPT !.log = Append(@, reply)]
    IN IF reply.kind = "error" THEN caught(d, reply.message)
       ELSE [d EXCEPT !.at = "resolved",
                      !.value = [imageUrl |-> imageUrlOf(reply.parts),
                                 modelResponse |-> trim(textOf(reply.parts)),
                                 groundingChunks |-> reply.chunks]]

\* the continuation of `await ai.models.generateContent(...)`
replied(c, reply) ==
    LET d == [c EXCEPT !.log = Append(@, reply)]
    IN IF reply.kind = "error" THEN caught(d, reply.message)
       ELSE IF imageUrlOf(reply.parts) = <<>> THEN caught(d, MsgEmpty)
       ELSE [d EXCEPT !.at = "resolved",
                      !.value = [imageUrl |-> imageUrlOf(reply.parts),
                                 modelResponse |-> trim(textOf(reply.parts)),
                                 groundingChunks |-> reply.chunks]]

\* the continuation of `await this.sleep(waitTime)`: the next iteration
\* builds a request and calls the service again
woken(c) ==
    [c EXCEPT !.at = "request", !.attempt = @ + 1, !.calls = @ + 1,
              !.sent = Append(@, Request(c.cameraPrompt, c.settings))]

settled(c) == c.at \in {"resolved", "rejected"}

\* no scripted call is under way
NoHarness == [call |-> NewCall(FALSE), script |-> <<>>]

-----------------------------------------------------------------------------
(* App.tsx holds two App components: the first (lines 27-359) checks the   *)
(* API key and shows errors, the second (lines 375-565) passes a retry     *)
(* callback and caps the history.  Both use the same store and service.    *)

HistoryLimit == 15

MsgKeyRequired == "API Key Selection required for Pro quality. Please use Google AI Studio."
MsgSystemFault == "SYSTEM_FAULT: Project not found or invalid API Key. Please re-select a key from a paid project."
MsgAuthRequired == "AUTH_REQUIRED"

NoResult ==
    [id |-> 0, imageUrl |-> <<>>, prompt |-> <<>>, modelResponse |-> Undefined,
     quality |-> "flash", cameraState |-> DEFAULT_CAMERA_STATE,
     groundingChunks |-> Undefined]

\* the settings object of the App: only its quality is changed here
settingsOf(q) == [DEFAULT_SETTINGS EXCEPT !.quality = q]

\* a startGenerationFlow call: where it is suspended (pc), the values its
\* closure captured from the render it was created in, its generateImage call
Flow(id, pc, onRetry) ==
    [id |-> id, pc |-> pc, prompt |-> generatedPrompt, cameraState |-> state,
     quality |-> quality,
     call |-> IF pc = "service"
              THEN generateImage(generatedPrompt, settingsOf(quality), onRetry)
              ELSE NewCall(onRetry)]

\* a slip: the prompt is read from the render that is current when the
\* call settles
newResult_current(f, c) ==
    [id |-> f.id,
     imageUrl |-> c.value.imageUrl,
     prompt |-> generatedPrompt,
     modelResponse |-> IF app = "second" THEN Defined(c.value.modelResponse)
                       ELSE Undefined,
     quality |-> f.quality,
     cameraState |-> f.cameraState,
     groundingChunks |-> c.value.groundingChunks]

\* const newResult: GenerationResult = {...}
newResult(f, c) ==
    [id |-> f.id,
     imageUrl |-> c.value.imageUrl,
     prompt |-> f.prompt,
     modelResponse |-> IF app = "second" THEN Defined(c.value.modelResponse)
                       ELSE Undefined,
     quality |-> f.quality,
     cameraState |-> f.cameraState,
     groundingChunks |-> c.value.groundingChunks]

\* the list under "Grounding": the first App renders one link for every
\* chunk with a web key; the second passes the chunks to PromptConsole, which
\* does not read them
groundingList(r) ==
    IF app = "first" /\ r.groundingChunks.defined
    THEN SelectSeq(r.groundingChunks.items, LAMBDA c : c.kind = "web")
    ELSE <<>>

\* setHistory(prev => [newResult, ...prev].slice(0, 15)) in the second App,
\* setHistory(prev => [newResult, ...prev]) in the first
recordIn(h, r) ==
    IF app = "second" THEN SliceFirst(<<r>> \o h, HistoryLimit) ELSE <<r>> \o h

\* a slip: the move handler passes the sums on without clamping them
dragUpdate_unclamped(s, dx, dy) ==
    Partial({"rotate", "tilt"},
            [DEFAULT_CAMERA_STATE EXCEPT !.rotate = s.rotate + 4 * dx,
                                         !.tilt = s.tilt - 8 * dy])

\* handleInputMove: the object passed to onChange
dragUpdate(s, dx, dy) ==
    Partial({"rotate", "tilt"},
            [DEFAULT_CAMERA_STATE EXCEPT
                !.rotate = Max(ROTATE_LIMITS.min, Min(ROTATE_LIMITS.max, s.rotate + 4 * dx)),
                !.tilt = Max(TILT_LIMITS.min, Min(TILT_LIMITS.max, s.tilt - 8 * dy))])

RemoveAt(q, i) == SubSeq(q, 1, i - 1) \o SubSeq(q, i + 1, Len(q))

\* the settled call, whether its flow went on to openSelectKey(), the error
\* its catch block passed to setError ("null" when it passed none) and the
\* result it passed to setHistory (NoResult when it passed none)
NoFinished ==
    [id |-> 0, call |-> NewCall(FALSE), reselect |-> FALSE, shown |-> "null",
     stored |-> NoResult]

\* no App is mounted
Unmounted ==
    /\ app = "none"
    /\ aistudio = FALSE
    /\ apiKey = InitialKey
    /\ sourceImage = FALSE
    /\ quality = "flash"
    /\ apiKeyReady = "null"
    /\ checkPending = FALSE
    /\ bannerDialog = FALSE
    /\ isGenerating = FALSE
    /\ history = <<>>
    /\ result = NoResult
    /\ error = "null"
    /\ retrySeconds = 0
    /\ flows = <<>>
    /\ started = 0
    /\ budget = 0
    /\ recorded = 0
    /\ finished = NoFinished

-----------------------------------------------------------------------------
(* The history variable: the last TrailDepth operations on the store, each *)
(* with its argument and the camera state it started from.                 *)

Entry(op, arg, pre) == [op |-> op, arg |-> arg, pre |-> pre]

Logged(op, arg) == SliceLast(Append(trail, Entry(op, arg, state)), TrailDepth)

here == Store(state, past, future)

Becomes(st) ==
    /\ state' = st.state
    /\ past' = st.past
    /\ future' = st.future

-----------------------------------------------------------------------------
(* The hook's operations, called directly *)

Update(u) ==
    /\ Becomes(updateState(here, u))
    /\ trail' = Logged("update", u)
    /\ UNCHANGED <<compiled, svc, appVars>>

Undo ==
    /\ canUndo(here)
    /\ Becomes(undo(here))
    /\ trail' = Logged("undo", NoArg)
    /\ UNCHANGED <<compiled, svc, appVars>>

Redo ==
    /\ canRedo(here)
    /\ Becomes(redo(here))
    /\ trail' = Logged("redo", NoArg)
    /\ UNCHANGED <<compiled, svc, appVars>>

Reset ==
    /\ Becomes(reset(here))
    /\ trail' = Logged("reset", NoArg)
    /\ UNCHANGED <<compiled, svc, appVars>>

\* arguments a caller of the hook may pass to updateState
RawUpdates ==
    { OnlyRotate(9990), OnlyForward(-5), OnlyRotate(450), OnlyForward(8),
      OnlyWideAngle(TRUE), NoArg, Whole(PRESET_LIST[5].state) }

Room == Len(past) < MaxPast

InitStore ==
    /\ state = DEFAULT_CAMERA_STATE
    /\ past = <<>>
    /\ future = <<>>
    /\ trail = <<>>
    /\ compiled = <<>>
    /\ svc = NoHarness
    /\ Unmounted

NextStore ==
    \/ \E u \in RawUpdates : (hasChanged(state, u) => Room) /\ Update(u)
    \/ Undo
    \/ Redo
    \/ Room /\ Reset

SpecStore == InitStore /\ [][NextStore]_vars

\* the store driven to the cap of its stacks: resets one after the other,
\* undo and redo, and an update once past is about to be full and holds
\* default states only
StackRoom == 52     \* resets are explored while past is shorter

ResetAgain == Len(past) < StackRoom /\ Reset

UpdateAtCap ==
    /\ Len(past) >= PastLimit - 1
    /\ \A i \in 1..Len(past) : past[i] = DEFAULT_CAMERA_STATE
    /\ Update(OnlyWideAngle(TRUE))

NextStacks == ResetAgain \/ UpdateAtCap \/ Undo \/ Redo

SpecStacks == InitStore /\ [][NextStacks]_vars

-----------------------------------------------------------------------------
(* The prompt compiler on its own: any camera state of the grid, compiled  *)
(* once.                                                                   *)

PromptRotates == {-900, -100, -99, -50, 0, 30, 50, 99, 100, 450}
PromptForwards == {0, 3, 4, 6, 7, 8, 9, 10}
PromptTilts == {-1000, -501, -200, -199, 0, 199, 200, 501}

InitPrompt ==
    /\ state \in { Cam(r, f, t, w, fl) :
                     r \in PromptRotates, f \in PromptForwards, t \in PromptTilts,
                     w \in BOOLEAN, fl \in BOOLEAN }
    /\ past = <<>>
    /\ future = <<>>
    /\ trail = <<>>
    /\ compiled = <<>>
    /\ svc = NoHarness
    /\ Unmounted

Compile ==
    /\ compiled = <<>>
    /\ compiled' = buildCameraPrompt(state)
    /\ UNCHANGED <<camVars, svc, appVars>>

NextPrompt == Compile

SpecPrompt == InitPrompt /\ [][NextPrompt]_vars

-----------------------------------------------------------------------------
(* generateImage against a scripted service: script[n] is what the service *)
(* answers to the n-th generateContent call.                               *)

ImageReply == Response(<<InlinePart("AAAA")>>, Undefined)
TextOnlyReply == Response(<<TextPart("analysis")>>, Undefined)
\* no candidate, or a candidate without parts
EmptyReply == Response(<<>>, Undefined)
\* an image with grounding metadata, which the service attaches only to
\* the answer to a request that carries the search tool
GroundedReply ==
    Response(<<InlinePart("BBBB")>>,
             Chunks(<<Web("https://a.example/"), Maps("https://m.example/"),
                      Web("https://a.example/")>>))

\* two images with text before, between and after them
MultiReply ==
    Response(<<TextPart("plan"), InlinePart("AAAA"), TextPart("analysis"),
               InlinePart("CCCC"), TextPart(" ")>>, Undefined)

ScriptReplies ==
    { ImageReply, TextOnlyReply, MultiReply,
      Failure(Msg429), Failure(MsgQUOTA), Failure(MsgQuota),
      Failure(MsgNotFound), Failure(MsgFetch),
      EmptyReply, Failure(MsgApiKey), Failure(MsgSafety) }

\* the camera states the call is made from: the default, the composite
\* case and an orbit
ServiceCameras ==
    { DEFAULT_CAMERA_STATE, Cam(0, 8, 0, TRUE, FALSE), Cam(450, 3, 100, FALSE, FALSE) }

ServiceSettings ==
    { [DEFAULT_SETTINGS EXCEPT !.quality = q, !.imageSize = z] :
        q \in {"flash", "pro"}, z \in {Absent, "2K"} }

InitService ==
    /\ state \in ServiceCameras
    /\ past = <<>>
    /\ future = <<>>
    /\ trail = <<>>
    /\ compiled = <<>>
    /\ Unmounted
    /\ \E onRetry \in BOOLEAN :
       \E script \in [1..MAX_RETRIES -> ScriptReplies] :
       \E settings \in ServiceSettings :
           svc = [call |-> generateImage(buildCameraPrompt(state), settings, onRetry),
                  script |-> script]

ServiceReplies ==
    /\ svc.call.at = "request"
    /\ svc' = [svc EXCEPT !.call = replied(@, svc.script[svc.call.calls])]
    /\ UNCHANGED <<camVars, compiled, appVars>>

SleepElapses ==
    /\ svc.call.at = "sleep"
    /\ svc' = [svc EXCEPT !.call = woken(@)]
    /\ UNCHANGED <<camVars, compiled, appVars>>

NextService == ServiceReplies \/ SleepElapses

SpecService == InitService /\ [][NextService]_vars

-----------------------------------------------------------------------------
(* The application: App.tsx with the store, the controls and the service   *)


SliderRotates == {-900, 80}
SliderForwards == {8}
SliderTilts == {-600}
DragMoves == { <<300, -200>>, <<-10, 25>> }

AppReplies ==
    { ImageReply, GroundedReply, TextOnlyReply, EmptyReply, Failure(Msg429),
      Failure(MsgNotFound), Failure(MsgApiKey), Failure(MsgSafety) }

\* the application after its first render
Mounted ==
    /\ state = DEFAULT_CAMERA_STATE
    /\ past = <<>>
    /\ future = <<>>
    /\ trail = <<>>
    /\ compiled = <<>>
    /\ svc = NoHarness
    /\ app \in {"first", "second"}
    /\ aistudio \in BOOLEAN
    /\ apiKey = InitialKey
    /\ sourceImage = FALSE
    /\ quality = "flash"
    \* the mount effect of the first App: setApiKeyReady(true) at once when
    \* the host offers no key query
    /\ checkPending = (app = "first" /\ aistudio)
    /\ apiKeyReady = IF app = "first" /\ ~aistudio THEN "true" ELSE "null"
    /\ bannerDialog = FALSE
    /\ isGenerating = FALSE
    /\ history = <<>>
    /\ result = NoResult
    /\ error = "null"
    /\ retrySeconds = 0
    /\ flows = <<>>
    /\ started = 0
    /\ recorded = 0
    /\ finished = NoFinished

genVars == <<sourceImage, quality, apiKeyReady, checkPending, bannerDialog,
             isGenerating, history, result, error, retrySeconds, flows, started,
             recorded, finished>>

\* a control calls updateCamera(u)
Control(op, u) ==
    /\ Becomes(updateState(here, u))
    /\ trail' = << Entry(op, u, state) >>
    /\ budget > 0 /\ budget' = budget - 1
    /\ UNCHANGED <<compiled, svc, app, aistudio, apiKey, genVars>>

\* CameraSliders: a range input changes
SliderChange ==
    \/ \E v \in SliderRotates : Control("slider", OnlyRotate(v))
    \/ \E v \in SliderForwards : Control("slider", OnlyForward(v))
    \/ \E v \in SliderTilts : Control("slider", OnlyTilt(v))

\* CameraSliders: the two toggle buttons
ToggleWideAngle == Control("toggle", OnlyWideAngle(~state.wideAngle))
ToggleFloating == Control("toggle", OnlyFloating(~state.floating))

\* Camera3DControl: a pointer move while dragging
Drag == \E mv \in DragMoves : Control("drag", dragUpdate(state, mv[1], mv[2]))

\* PresetGallery -> handlePresetSelect
PresetSelect == \E i \in 1..Len(PRESET_LIST) : Control("preset", Whole(PRESET_LIST[i].state))

ResetCamera ==
    /\ Becomes(reset(here))
    /\ trail' = << Entry("reset", NoArg, state) >>
    /\ budget > 0 /\ budget' = budget - 1
    /\ UNCHANGED <<compiled, svc, app, aistudio, apiKey, genVars>>

\* undo and redo as the hook hands them to its consumer
UndoCamera ==
    /\ canUndo(here)
    /\ Becomes(undo(here))
    /\ trail' = << Entry("undo", NoArg, state) >>
    /\ budget > 0 /\ budget' = budget - 1
    /\ UNCHANGED <<compiled, svc, app, aistudio, apiKey, genVars>>

RedoCamera ==
    /\ canRedo(here)
    /\ Becomes(redo(here))
    /\ trail' = << Entry("redo", NoArg, state) >>
    /\ budget > 0 /\ budget' = budget - 1
    /\ UNCHANGED <<compiled, svc, app, aistudio, apiKey, genVars>>

\* a slip: the selected result moves to the front of the history
HistorySelect_promotes ==
    \E i \in 1..Len(history) :
        LET item == history[i]
            u == Whole(item.cameraState)
        IN /\ result' = item
           /\ history' = <<item>> \o SubSeq(history, 1, i - 1)
                                 \o SubSeq(history, i + 1, Len(history))
           /\ trail' = << Entry("select", u, state) >>
           /\ IF app = "first"
              THEN Becomes(updateState(here, u))
              ELSE UNCHANGED <<state, past, future>>
           /\ budget > 0 /\ budget' = budget - 1
           /\ UNCHANGED <<compiled, svc, app, aistudio, apiKey,
                          sourceImage, quality,
                          apiKeyReady, checkPending, bannerDialog, isGenerating,
                          error, retrySeconds, flows, started, recorded,
                          finished>>

\* HistorySidebar onSelect: setResult(i) and, in the first App only,
\* updateCamera(i.cameraState)
HistorySelect ==
    \E i \in 1..Len(history) :
        LET item == history[i]
            u == Whole(item.cameraState)
        IN /\ result' = item
           /\ trail' = << Entry("select", u, state) >>
           /\ IF app = "first"
              THEN Becomes(updateState(here, u))
              ELSE UNCHANGED <<state, past, future>>
           /\ budget > 0 /\ budget' = budget - 1
           /\ UNCHANGED <<compiled, svc, app, aistudio, apiKey,
                   sourceImage, quality,
                          apiKeyReady, checkPending, bannerDialog, isGenerating,
                          history, error, retrySeconds, flows, started, recorded,
                          finished>>

\* HistorySidebar onClear (the sidebar renders nothing when history is empty)
ClearHistory ==
    /\ history /= <<>>
    /\ history' = <<>>
    /\ recorded' = 0
    /\ budget > 0 /\ budget' = budget - 1
    /\ UNCHANGED <<camVars, compiled, svc, app, aistudio, apiKey,
                   sourceImage, quality,
                   apiKeyReady, checkPending, bannerDialog, isGenerating, result,
                   error, retrySeconds, flows, started, finished>>

\* ImageUploader onUpload, shown while there is no image
Upload ==
    /\ ~sourceImage
    /\ sourceImage' = TRUE
    /\ budget > 0 /\ budget' = budget - 1
    /\ UNCHANGED <<camVars, compiled, svc, app, aistudio, apiKey,
                   quality, apiKeyReady,
                   checkPending, bannerDialog, isGenerating, history, result, error,
                   retrySeconds, flows, started, recorded, finished>>

\* Camera3DControl onReplace, passed by the second App only
ReplaceImage ==
    /\ app = "second" /\ sourceImage
    /\ sourceImage' = FALSE
    /\ budget > 0 /\ budget' = budget - 1
    /\ UNCHANGED <<camVars, compiled, svc, app, aistudio, apiKey,
                   quality, apiKeyReady,
                   checkPending, bannerDialog, isGenerating, history, result, error,
                   retrySeconds, flows, started, recorded, finished>>

\* GenerationSettingsPanel onChange({quality})
SetQuality ==
    /\ quality' = IF quality = "flash" THEN "pro" ELSE "flash"
    /\ budget > 0 /\ budget' = budget - 1
    /\ UNCHANGED <<camVars, compiled, svc, app, aistudio, apiKey,
                   sourceImage, apiKeyReady,
                   checkPending, bannerDialog, isGenerating, history, result, error,
                   retrySeconds, flows, started, recorded, finished>>

\* the first App's mount effect: hasSelectedApiKey() resolves
CheckKeyResolves ==
    /\ checkPending
    /\ checkPending' = FALSE
    /\ \E hasKey \in {"true", "false"} : apiKeyReady' = hasKey
    /\ UNCHANGED <<camVars, compiled, svc, app, aistudio, apiKey,
                   sourceImage, quality,
                   bannerDialog, isGenerating, history, result, error, retrySeconds,
                   flows, started, recorded, finished, budget>>

\* the first App's banner button, shown for pro quality without a ready key:
\* handleSelectKey calls openSelectKey()
BannerSelectKey ==
    /\ app = "first" /\ quality = "pro" /\ apiKeyReady /= "true"
    /\ aistudio /\ ~bannerDialog
    /\ bannerDialog' = TRUE
    /\ budget > 0 /\ budget' = budget - 1
    /\ UNCHANGED <<camVars, compiled, svc, app, aistudio, apiKey,
                   sourceImage, quality,
                   apiKeyReady, checkPending, isGenerating, history, result, error,
                   retrySeconds, flows, started, recorded, finished>>

\* ... and openSelectKey() resolves: setApiKeyReady(true)
BannerDialogCloses ==
    /\ bannerDialog
    /\ bannerDialog' = FALSE
    /\ apiKeyReady' = "true"
    /\ UNCHANGED <<camVars, compiled, svc, app, aistudio, apiKey,
                   sourceImage, quality,
                   checkPending, isGenerating, history, result, error, retrySeconds,
                   flows, started, recorded, finished, budget>>

\* a click on the generate button, which is disabled while there is no
\* image or isGenerating is set: startGenerationFlow up to its first await
StartGeneration ==
    /\ sourceImage /\ ~isGenerating
    /\ started' = started + 1
    /\ IF app = "first" /\ quality = "pro" /\ apiKeyReady /= "true"
       THEN IF aistudio
            THEN \* await handleSelectKey()
                 /\ flows' = Append(flows, Flow(started + 1, "selectKey", FALSE))
                 /\ UNCHANGED <<isGenerating, error, result>>
            ELSE /\ error' = MsgKeyRequired
                 /\ UNCHANGED <<flows, isGenerating, result>>
       ELSE /\ isGenerating' = TRUE
            /\ IF app = "first"
               THEN error' = "null" /\ UNCHANGED result
               ELSE result' = NoResult /\ UNCHANGED error
            /\ flows' = Append(flows, Flow(started + 1, "service", app = "second"))
    /\ budget > 0 /\ budget' = budget - 1
    /\ UNCHANGED <<camVars, compiled, svc, app, aistudio, apiKey,
                   sourceImage, quality,
                   apiKeyReady, checkPending, bannerDialog, history, retrySeconds,
                   recorded, finished>>

\* a slip: the flow goes on without marking the credential ready
KeyDialogCloses_unmarked ==
    \E i \in 1..Len(flows) :
        /\ flows[i].pc = "selectKey"
        /\ isGenerating' = TRUE
        /\ error' = "null"
        /\ flows' = [flows EXCEPT
                        ![i].pc = "service",
                        ![i].call = generateImage(flows[i].prompt,
                                                  settingsOf(flows[i].quality),
                                                  flows[i].call.onRetry)]
        /\ UNCHANGED <<camVars, compiled, svc, app, aistudio, apiKey,
                       sourceImage, quality, apiKeyReady,
                       checkPending, bannerDialog, history, result, retrySeconds,
                       started, recorded, finished, budget>>

\* openSelectKey() of a waiting flow resolves: setApiKeyReady(true), then
\* setIsGenerating(true), setError(null) and the generateImage call
KeyDialogCloses ==
    \E i \in 1..Len(flows) :
        /\ flows[i].pc = "selectKey"
        /\ apiKeyReady' = "true"
        /\ isGenerating' = TRUE
        /\ error' = "null"
        /\ flows' = [flows EXCEPT
                        ![i].pc = "service",
                        ![i].call = generateImage(flows[i].prompt,
                                                  settingsOf(flows[i].quality),
                                                  flows[i].call.onRetry)]
        /\ UNCHANGED <<camVars, compiled, svc, app, aistudio, apiKey,
                   sourceImage, quality,
                       checkPending, bannerDialog, history, result, retrySeconds,
                       started, recorded, finished, budget>>

\* the service answers the generateContent call of flow i: generateImage
\* runs on to its next await or settles, and when it settles the flow runs
\* on to its next await or to the end of its finally block
Answered(i, reply) ==
    LET f == flows[i]
        c == replied(f.call, reply)
        reselects ==
            /\ c.at = "rejected" /\ aistudio
            /\ IF app = "first"
               THEN Includes(c.lastError, "Requested entity was not found.")
               ELSE c.lastError = MsgAuthRequired
        shown ==
            IF c.at = "rejected" /\ app = "first"
            THEN (IF Includes(c.lastError, "Requested entity was not found.")
                  THEN MsgSystemFault ELSE c.lastError)
            ELSE "null"
    IN /\ f.pc = "service" /\ f.call.at = "request"
       /\ reply.chunks.defined => f.call.sent[Len(f.call.sent)].config.tools.defined
       /\ flows' = IF c.at = "sleep" THEN [flows EXCEPT ![i].call = c]
                   ELSE IF reselects
                        THEN [flows EXCEPT ![i].call = c, ![i].pc = "reselect"]
                        ELSE RemoveAt(flows, i)
       /\ retrySeconds' = IF c.at = "sleep" /\ c.onRetry
                          THEN c.waits[Len(c.waits)] ELSE retrySeconds
       /\ finished' = IF settled(c)
                      THEN [id |-> f.id, call |-> c, reselect |-> reselects,
                            shown |-> shown,
                            stored |-> IF c.at = "resolved" THEN newResult(f, c)
                                       ELSE NoResult]
                      ELSE finished
       /\ IF c.at = "resolved"
          THEN /\ result' = newResult(f, c)
               /\ history' = recordIn(history, newResult(f, c))
               /\ recorded' = recorded + 1
          ELSE UNCHANGED <<result, history, recorded>>
       /\ error' = IF shown /= "null" THEN shown ELSE error
       /\ apiKeyReady' = IF c.at = "rejected" /\ app = "first"
                            /\ Includes(c.lastError, "Requested entity was not found.")
                         THEN "false" ELSE apiKeyReady
       /\ isGenerating' = IF settled(c) /\ ~reselects THEN FALSE ELSE isGenerating
       /\ UNCHANGED <<camVars, compiled, svc, app, aistudio, apiKey,
                   sourceImage, quality,
                      checkPending, bannerDialog, started, budget>>

AnsweredFrom(replies) ==
    \E i \in 1..Len(flows) : \E reply \in replies : Answered(i, reply)

\* the service answers with any of the replies
ServiceAnswers == AnsweredFrom(AppReplies)

\* the service answers with an image
ServiceDelivers == AnsweredFrom({ImageReply})

\* the back-off sleep of flow i is over
SleepOver ==
    \E i \in 1..Len(flows) :
        /\ flows[i].pc = "service" /\ flows[i].call.at = "sleep"
        /\ flows' = [flows EXCEPT ![i].call = woken(@)]
        /\ UNCHANGED <<camVars, compiled, svc, app, aistudio, apiKey,
                   sourceImage, quality,
                       apiKeyReady, checkPending, bannerDialog, isGenerating, history,
                       result, error, retrySeconds, started, recorded, finished, budget>>

\* a slip: the flow ends without running its finally block
ReselectDialogCloses_stuck ==
    \E i \in 1..Len(flows) :
        /\ flows[i].pc = "reselect"
        /\ flows' = RemoveAt(flows, i)
        /\ UNCHANGED <<camVars, compiled, svc, app, aistudio, apiKey,
                       sourceImage, quality, isGenerating,
                       apiKeyReady, checkPending, bannerDialog, history, result, error,
                       retrySeconds, started, recorded, finished, budget>>

\* openSelectKey() called from the catch block resolves: the finally block
ReselectDialogCloses ==
    \E i \in 1..Len(flows) :
        /\ flows[i].pc = "reselect"
        /\ isGenerating' = FALSE
        /\ flows' = RemoveAt(flows, i)
        /\ UNCHANGED <<camVars, compiled, svc, app, aistudio, apiKey,
                   sourceImage, quality,
                       apiKeyReady, checkPending, bannerDialog, history, result, error,
                       retrySeconds, started, recorded, finished, budget>>

\* the user picks a new key in an open key dialog of the host
KeyPicked ==
    /\ aistudio
    /\ bannerDialog \/ \E i \in 1..Len(flows) : flows[i].pc \in {"selectKey", "reselect"}
    /\ apiKey < MaxKeys
    /\ apiKey' = apiKey + 1
    /\ UNCHANGED <<camVars, compiled, svc, app, aistudio, genVars, budget>>

\* the actions of the user
CameraControls ==
    \/ SliderChange
    \/ ToggleWideAngle
    \/ ToggleFloating
    \/ Drag
    \/ PresetSelect
    \/ ResetCamera
    \/ UndoCamera
    \/ RedoCamera

\* the actions of the user that start, feed or configure a generation
GenerationControls ==
    \/ Upload
    \/ ReplaceImage
    \/ SetQuality
    \/ BannerSelectKey
    \/ StartGeneration
    \/ HistorySelect
    \/ ClearHistory

\* what the host and the service do
Completions ==
    \/ CheckKeyResolves
    \/ BannerDialogCloses
    \/ KeyDialogCloses
    \/ ServiceAnswers
    \/ SleepOver
    \/ ReselectDialogCloses

\* the application with a camera moved by the sliders and the reset button
MaxEvents == 4      \* user actions explored

InitApp == Mounted /\ budget = MaxEvents

NextApp ==
    \/ GenerationControls
    \/ SliderChange
    \/ ResetCamera
    \/ Completions

Spec == InitApp /\ [][NextApp]_vars

\* the application with every camera control and a service that delivers
ControlEvents == 3  \* user actions explored

InitControls == Mounted /\ budget = ControlEvents

NextControls ==
    \/ CameraControls
    \/ HistorySelect
    \/ Upload
    \/ StartGeneration
    \/ CheckKeyResolves
    \/ ServiceDelivers

SpecControls == InitControls /\ [][NextControls]_vars

\* the application under a host whose user picks new keys in the dialogs
KeyEvents == 3      \* user actions explored

InitKeys == Mounted /\ budget = KeyEvents

NextKeys ==
    \/ Upload
    \/ SetQuality
    \/ BannerSelectKey
    \/ StartGeneration
    \/ KeyPicked
    \/ Completions

SpecKeys == InitKeys /\ [][NextKeys]_vars

\* the same under a service that answers every call and timers that fire
SpecLive ==
    InitKeys /\ [][NextKeys]_vars /\ WF_vars(ServiceAnswers) /\ WF_vars(SleepOver)

\* the same under a host whose key dialog, once opened by a generation,
\* closes: the promise of openSelectKey() settles
SpecDialog == InitKeys /\ [][NextKeys]_vars /\ WF_vars(KeyDialogCloses)

\* the application recording one delivered result after the other
LedgerEvents == 21  \* user actions explored

InitLedger == Mounted /\ budget = LedgerEvents

NextLedger ==
    \/ Upload
    \/ StartGeneration
    \/ ServiceDelivers
    \/ ClearHistory

SpecLedger == InitLedger /\ [][NextLedger]_vars

-----------------------------------------------------------------------------
(* Properties *)

\* the i-th most recent operation on the store (0 = the last one)
Recent(i) == trail[Len(trail) - i]
Did(i, op) == Len(trail) > i /\ Recent(i).op = op

\* C2: update clamps out-of-range numeric input to the nearest domain bound:
\* after update({rotate: 999}) rotate is 90, after update({forward: -5})
\* forward is 0.
C2_UpdateClamps ==
    Did(0, "update") =>
        /\ ("rotate" \in Recent(0).arg.keys /\ Recent(0).arg.vals.rotate > ROTATE_LIMITS.max)
               => state.rotate = ROTATE_LIMITS.max
        /\ ("forward" \in Recent(0).arg.keys /\ Recent(0).arg.vals.forward < FORWARD_LIMITS.min)
               => state.forward = FORWARD_LIMITS.min

\* C3: compiling the default camera state returns exactly the neutral
\* sentinel string "no camera movement".
C3_DefaultCompilesToSentinel ==
    (compiled /= <<>> /\ state = DEFAULT_CAMERA_STATE) => compiled = NoCameraMovement

\* the composite special case as the claim states it: wide angle, forward
\* above 6, |rotate| below 10 degrees, |tilt| below 0.2
InComposite(s) ==
    s.wideAngle /\ s.forward > 6 /\ Abs(s.rotate) < 100 /\ Abs(s.tilt) < 200

\* C4: in the composite special case, with either value of floating, the
\* compiled prompt is exactly the single dolly-zoom instruction and nothing
\* else is appended.
C4_CompositeIsSingleInstruction ==
    (compiled /= <<>> /\ InComposite(state)) => compiled = DollyZoomPrompt

C4_Witness ==
    /\ compiled = DollyZoomPrompt
    /\ state.floating /\ state.forward = 8 /\ state.rotate = 0 /\ state.tilt = 0

\* C10 as stated: update followed by undo leaves the state equal to the
\* state before the update, and a redo directly after that undo leaves it
\* equal to the state after the update, for any partial update.
C10_UpdateUndoRedo ==
    /\ (Did(1, "update") /\ Did(0, "undo")) => state = Recent(1).pre
    /\ (Did(2, "update") /\ Did(1, "undo") /\ Did(0, "redo")) => state = Recent(1).pre

\* C10 amended: the same for any partial update that changes at least one
\* field of the state it is applied to.
C10_ChangingUpdateUndoRedo ==
    /\ (Did(1, "update") /\ hasChanged(Recent(1).pre, Recent(1).arg) /\ Did(0, "undo"))
           => state = Recent(1).pre
    /\ (Did(2, "update") /\ hasChanged(Recent(2).pre, Recent(2).arg)
            /\ Did(1, "undo") /\ Did(0, "redo"))
           => state = Recent(1).pre

C10_Witness ==
    /\ Did(2, "update") /\ Did(1, "undo") /\ Did(0, "redo")
    /\ hasChanged(Recent(2).pre, Recent(2).arg)
    /\ Recent(2).pre /= DEFAULT_CAMERA_STATE
    /\ state = Recent(1).pre

\* a reply that holds an inline image part
Succeeds(reply) ==
    reply.kind = "response" /\ \E i \in 1..Len(reply.parts) : reply.parts[i].kind = "inlineData"

\* the scripted service fails its first k calls with a message of the given
\* class and succeeds on the next one
FailsThenSucceeds(script, k, Class(_)) ==
    /\ k + 1 <= Len(script)
    /\ \A i \in 1..k : script[i].kind = "error" /\ Class(script[i].message)
    /\ Succeeds(script[k + 1])

\* the call resolved with the outcome of its (k+1)-th service call after k
\* callback invocations with strictly increasing seconds
ResolvedAfter(c, script, k) ==
    /\ c.at = "resolved"
    /\ c.calls = k + 1
    /\ c.value.imageUrl = imageUrlOf(script[k + 1].parts)
    /\ Len(c.waits) = k
    /\ \A i \in 1..(k - 1) : c.waits[i] < c.waits[i + 1]
    /\ (k = 2 => c.waits = <<2, 4>>)

\* the quota class as the claim words it: a message containing "429" or
\* "quota"
QuotaAsStated(msg) == Includes(msg, "429") \/ Includes(msg, "quota")

\* C5 as stated: if the service fails with a message containing "429" or
\* "quota" on the first k < 3 attempts and then succeeds, generateImage
\* resolves with the successful outcome after exactly k callback invocations
\* with strictly increasing whole seconds (2 then 4 for k = 2).
C5_QuotaRetriesThenSuccess ==
    \A k \in 0..(MAX_RETRIES - 1) :
        (settled(svc.call) /\ svc.call.onRetry
            /\ FailsThenSucceeds(svc.script, k, QuotaAsStated))
        => ResolvedAfter(svc.call, svc.script, k)

\* the same holds for the messages the case-sensitive test of the code
\* matches: "429" or the upper-case "QUOTA"
RateLimitRetriesThenSuccess ==
    \A k \in 0..(MAX_RETRIES - 1) :
        (settled(svc.call) /\ svc.call.onRetry
            /\ FailsThenSucceeds(svc.script, k, isRateLimit))
        => ResolvedAfter(svc.call, svc.script, k)

\* C1: in every reachable state of the camera store, after any sequence of
\* updates from the sliders, the 3D drag, the presets and the history
\* selection, and of reset, undo and redo, rotate is in [-90, 90], forward in
\* [0, 10] and tilt in [-1, 1].
InDomain(s) ==
    /\ ROTATE_LIMITS.min <= s.rotate /\ s.rotate <= ROTATE_LIMITS.max
    /\ FORWARD_LIMITS.min <= s.forward /\ s.forward <= FORWARD_LIMITS.max
    /\ TILT_LIMITS.min <= s.tilt /\ s.tilt <= TILT_LIMITS.max

C1_FieldsStayInDomain ==
    /\ InDomain(state)
    /\ \A i \in 1..Len(past) : InDomain(past[i])
    /\ \A i \in 1..Len(future) : InDomain(future[i])

\* a drag that would leave the domain on both axes ends on its bounds
C1_Witness ==
    /\ Did(0, "drag")
    /\ Recent(0).pre.rotate = 450
    /\ state.rotate = ROTATE_LIMITS.max /\ state.tilt = TILT_LIMITS.max

\* the authentication class as the claim words it, letter case ignored
AuthAsStated(msg) ==
    \E sub \in {"API key", "api key", "authentication", "not found",
                "entity was not found"} : Includes(msg, sub)

\* C6: if the first service call fails with an authentication/key error, the
\* service is not called again, the retry-wait callback is never invoked,
\* and the outcome rejects so that the caller starts credential
\* re-selection (where the host offers one).
C6_AuthErrorRejectsAndReselects ==
    (finished.id /= 0 /\ finished.call.log /= <<>>
        /\ finished.call.log[1].kind = "error"
        /\ AuthAsStated(finished.call.log[1].message))
    => /\ finished.call.at = "rejected"
       /\ finished.call.calls = 1
       /\ finished.call.waits = <<>>
       /\ aistudio => finished.reselect

\* C7: at most one generation request is in flight at any time, the wait of
\* a retry back-off included.
InFlight == {i \in 1..Len(flows) : flows[i].pc = "service"}

C7_AtMostOneInFlight == Cardinality(InFlight) <= 1

\* C8: the history never holds more than its cap, and it holds the most
\* recent results recorded since it was last cleared, most recent first.
C8_LedgerBounded ==
    /\ Len(history) <= HistoryLimit
    /\ Len(history) = Min(recorded, HistoryLimit)
    /\ \A i \in 1..Len(history) : history[i].id = finished.id - (i - 1)

\* C9: selecting a result from the history sets the camera state to the
\* cameraState stored on that result, whatever the state was before.
C9_SelectRestoresSnapshot ==
    Did(0, "select") => state = Recent(0).arg.vals

\* every generateContent call of the scripted service so far failed with a
\* rate-limit message
AllRateLimited ==
    \A i \in 1..MAX_RETRIES :
        svc.script[i].kind = "error" /\ isRateLimit(svc.script[i].message)

OtherFailure(reply) ==
    \/ reply.kind = "error"
       /\ reply.message \in {MsgNotFound, MsgApiKey, MsgSafety, MsgFetch}
    \/ reply.kind = "response" /\ ~Succeeds(reply)

\* C12: a failure of another class than rate limit, on any attempt, ends the
\* retry loop at once: it is the last service call, no callback follows it
\* and the call rejects.
C12_OnlyRateLimitRetried ==
    \A i \in 1..Len(svc.call.log) :
        OtherFailure(svc.script[i])
        => /\ svc.call.at = "rejected"
           /\ svc.call.calls = i
           /\ Len(svc.call.waits) = IF svc.call.onRetry THEN i - 1 ELSE 0

C12_Witness ==
    /\ svc.call.at = "rejected" /\ svc.call.onRetry
    /\ svc.script[1].message = Msg429 /\ svc.script[2] = Failure(MsgSafety)
    /\ svc.call.calls = 2 /\ svc.call.waits = <<2>>

\* the last answer the settled call received
LastAnswer == finished.call.log[Len(finished.call.log)]

Recorded(id) == \E i \in 1..Len(history) : history[i].id = id

\* C13: if the response holds no inline image part, generateImage rejects
\* with an error of its own (of no retried or credential class) instead of
\* resolving with an empty image, and no result is recorded for that
\* generation.
C13_NoImageRejectsUnrecorded ==
    (finished.id /= 0 /\ LastAnswer.kind = "response" /\ ~Succeeds(LastAnswer))
    => /\ finished.call.at = "rejected"
       /\ finished.call.lastError = MsgEmpty
       /\ ~isRateLimit(MsgEmpty) /\ ~AuthAsStated(MsgEmpty)
       /\ finished.call.value = NoValue
       /\ ~Recorded(finished.id)
       /\ result.id /= finished.id

C13_Witness ==
    /\ finished.id = 2 /\ LastAnswer = TextOnlyReply
    /\ finished.call.at = "rejected"
    /\ Len(history) = 1 /\ history[1].id = 1

\* C14: no error is silently dropped: every generation that rejects ends
\* with an error put into the application state or, for a credential error,
\* with the credential re-selection started.
C14_NoErrorDropped ==
    (finished.id /= 0 /\ finished.call.at = "rejected")
    => finished.shown /= "null" \/ finished.reselect

\* a text-free data URL of a PNG: the prefix and a non-empty payload
WellFormedDataUrl(url) ==
    Len(url) = 2 /\ url[1] = "data:image/png;base64," /\ url[2] /= ""

OneInlineImage(reply) ==
    reply.kind = "response" /\ Len(reply.parts) = 1 /\ reply.parts[1].kind = "inlineData"

\* C15: with quality 'flash', a response holding one inline image part
\* yields a recorded GenerationResult whose imageUrl is a well-formed data
\* URL built from that part's payload and whose groundingChunks is absent.
C15_FlashEndToEnd ==
    (finished.id /= 0 /\ finished.call.settings.quality = "flash"
        /\ OneInlineImage(LastAnswer))
    => /\ finished.stored.id = finished.id
       /\ WellFormedDataUrl(finished.stored.imageUrl)
       /\ finished.stored.imageUrl[2] = LastAnswer.parts[1].data
       /\ finished.stored.groundingChunks = Undefined
       /\ finished.stored.quality = "flash"

C15_Witness ==
    /\ finished.id = 1 /\ finished.call.settings.quality = "flash"
    /\ LastAnswer = ImageReply
    /\ finished.stored.cameraState = DEFAULT_CAMERA_STATE
    /\ history /= <<>> /\ history[1] = finished.stored
    /\ history[1].imageUrl = <<"data:image/png;base64,", "AAAA">>

\* C16: every request sent to the service, on every attempt and for every
\* camera state and settings, carries the identity-preservation line and
\* the system instruction alongside the compiled prompt.
C16_IdentityLockOnEveryRequest ==
    \A i \in 1..Len(svc.call.sent) :
        /\ svc.call.sent[i].text.telemetry = buildCameraPrompt(state)
        /\ svc.call.sent[i].text.stability = "CRITICAL IDENTITY LOCK"
        /\ svc.call.sent[i].config.systemInstruction = "SYSTEM_INSTRUCTION"

C16_Witness ==
    /\ Len(svc.call.sent) = MAX_RETRIES
    /\ svc.call.sent[MAX_RETRIES].text.telemetry = DollyZoomPrompt
    /\ svc.call.sent[MAX_RETRIES].text.stability = "CRITICAL IDENTITY LOCK"

\* the requests sent so far by the generateImage call of flow id
SentBy(fl, id) ==
    LET at == {i \in 1..Len(fl) : fl[i].id = id}
    IN IF at = {} THEN <<>> ELSE fl[CHOOSE i \in at : TRUE].call.sent

\* C19: the service client is never cached: every request, of every call
\* and of every attempt, is sent with the credential that is current when
\* it is sent, so a credential rotated between two calls is the one the
\* second call uses.
C19_FreshClientPerAttempt ==
    [][\A id \in 1..started' :
          Len(SentBy(flows', id)) > Len(SentBy(flows, id))
          => SentBy(flows', id)[Len(SentBy(flows', id))].apiKey = apiKey']_vars

\* the first call went out with the initial key, the key was rotated, and
\* the second call goes out with the new key
C19_Witness ==
    /\ finished.id = 1 /\ finished.call.sent[1].apiKey = InitialKey
    /\ apiKey /= InitialKey
    /\ SentBy(flows, 2) /= <<>> /\ SentBy(flows, 2)[1].apiKey = apiKey

\* C20: the request carries a resolution parameter (imageSize, '1K' when the
\* settings hold none) and the search-grounding tool if and only if
\* settings.quality is 'pro'; a 'flash' request carries neither, whatever
\* imageSize the settings hold.
C20_ProOnlyRequestFields ==
    \A i \in 1..Len(svc.call.sent) :
        LET cfg == svc.call.sent[i].config
            set == svc.call.settings
        IN IF set.quality = "pro"
           THEN /\ cfg.imageSize = IF set.imageSize = Absent THEN "1K" ELSE set.imageSize
                /\ cfg.tools = Defined(<<"googleSearch">>)
           ELSE cfg.imageSize = Absent /\ cfg.tools = Undefined

C20_Witness ==
    /\ svc.call.settings.quality = "flash" /\ svc.call.settings.imageSize = "2K"
    /\ Len(svc.call.sent) = 2
    /\ svc.call.sent[2].config.imageSize = Absent
    /\ svc.call.sent[2].config.tools = Undefined

\* every pair of a camera state and the string compiled from it that the
\* application holds: the current one, those of the generations under way and
\* those of the recorded results
Compiled ==
    {[cameraState |-> state, prompt |-> generatedPrompt]}
    \cup {[cameraState |-> flows[i].cameraState, prompt |-> flows[i].prompt] :
             i \in 1..Len(flows)}
    \cup {[cameraState |-> history[i].cameraState, prompt |-> history[i].prompt] :
             i \in 1..Len(history)}

C18_ResetRestoresDefault ==
    Did(0, "reset") =>
        /\ state = DEFAULT_CAMERA_STATE
        /\ state.rotate = 0 /\ state.forward = 0 /\ state.tilt = 0
        /\ ~state.wideAngle /\ ~state.floating

C18_Witness ==
    /\ Did(0, "reset")
    /\ Recent(0).pre.wideAngle /\ Recent(0).pre.tilt /= 0 /\ Recent(0).pre.forward /= 0
    /\ state = DEFAULT_CAMERA_STATE

\* the inline image parts and the text parts of a reply, in part order
InlineParts(reply) == SelectSeq(reply.parts, LAMBDA p : p.kind = "inlineData")
TextParts(reply) == SelectSeq(reply.parts, LAMBDA p : p.kind = "text")

\* the reply the scripted call resolved on
ResolvedOn == svc.script[svc.call.calls]

\* C21: when the response holds several inline image parts, the returned
\* imageUrl is built from the first one in part order, and the free-text
\* parts are concatenated into modelResponse in encounter order.
C21_FirstImageWins ==
    (svc.call.at = "resolved" /\ Len(InlineParts(ResolvedOn)) > 1)
    => /\ svc.call.value.imageUrl = DataUrl(InlineParts(ResolvedOn)[1].data)
       /\ svc.call.value.modelResponse
            = trim([i \in 1..Len(TextParts(ResolvedOn)) |-> TextParts(ResolvedOn)[i].data])

\* what the code does: the text is concatenated in part order and the
\* image is the one of the last inline part
LastImageWins ==
    (svc.call.at = "resolved" /\ Len(InlineParts(ResolvedOn)) > 1)
    => /\ svc.call.value.imageUrl
            = DataUrl(InlineParts(ResolvedOn)[Len(InlineParts(ResolvedOn))].data)
       /\ svc.call.value.modelResponse
            = trim([i \in 1..Len(TextParts(ResolvedOn)) |-> TextParts(ResolvedOn)[i].data])

\* no two entries of a list of chunks share a URI
UniqueUris(l) == \A i, j \in 1..Len(l) : l[i].uri = l[j].uri => i = j

\* C22: the citation list extracted for a result is deduplicated by URI: when
\* several grounding chunks of a response share a URI, one entry for that URI
\* is kept and shown.
C22_CitationsDeduplicated == UniqueUris(groundingList(result))

\* C23: the undo stack (past) and the redo stack (future) are bounded: after
\* any sequence of update, reset, undo and redo, each holds at most 50
\* entries.
C23_StacksBounded == Len(past) <= PastLimit /\ Len(future) <= PastLimit

\* what the code keeps: a changing update leaves at most 50 entries in past
UpdateKeepsCap ==
    (Did(0, "update") /\ hasChanged(Recent(0).pre, Recent(0).arg)) => Len(past) <= PastLimit

\* C24: update pushes the pre-update state onto past and clears future only
\* if at least one supplied field differs from the current value; an update
\* whose fields all equal the current values leaves state, past and future
\* unchanged, so a pending redo survives it.
C24_UpdateFrame ==
    [][(trail' /= trail /\ trail'[Len(trail')].op = "update")
       => IF hasChanged(state, trail'[Len(trail')].arg)
          THEN past' = Append(past, state) /\ future' = <<>>
          ELSE state' = state /\ past' = past /\ future' = future]_vars

C24_Witness ==
    /\ Did(1, "undo") /\ Did(0, "update")
    /\ Recent(0).arg.keys /= {}
    /\ ~hasChanged(Recent(0).pre, Recent(0).arg)
    /\ state = Recent(0).pre
    /\ future /= <<>>

\* what the first App shows for a rejection with the given message
ShownFor(msg) ==
    IF Includes(msg, "Requested entity was not found.") THEN MsgSystemFault ELSE msg

\* C25: a content-safety refusal by the model is surfaced as an error of its
\* own, distinct from what is shown for quota, auth and system failures, and
\* is never retried.
C25_SafetySurfacedDistinctly ==
    (finished.id /= 0 /\ LastAnswer = Failure(MsgSafety))
    => /\ finished.call.at = "rejected"
       /\ finished.call.lastError = MsgSafety
       /\ finished.shown /= "null"
       /\ finished.shown \notin {ShownFor(Msg429), ShownFor(MsgQUOTA), ShownFor(MsgQuota),
                                 ShownFor(MsgNotFound), ShownFor(MsgApiKey),
                                 ShownFor(MsgFetch), ShownFor(MsgEmpty)}

\* the refusal is never retried, in the service on its own
SafetyNotRetried ==
    \A i \in 1..Len(svc.call.log) :
        svc.call.log[i] = Failure(MsgSafety)
        => svc.call.at = "rejected" /\ svc.call.calls = i

\* flow id waits for the key dialog it opened; flow id is in its service call
Selecting(fl, id) == \E i \in 1..Len(fl) : fl[i].id = id /\ fl[i].pc = "selectKey"
Calling(fl, id) ==
    \E i \in 1..Len(fl) : fl[i].id = id /\ fl[i].pc = "service" /\ Len(fl[i].call.sent) = 1

C27_ResultKeepsSentPrompt ==
    /\ [](finished.stored.id /= 0
            => /\ \A i \in 1..Len(finished.call.sent) :
                      finished.call.sent[i].text.telemetry = finished.stored.prompt
               /\ finished.stored.prompt = buildCameraPrompt(finished.stored.cameraState))
    /\ [][\A i \in 1..Len(history) : \A j \in 1..Len(history') :
              history'[j].id = history[i].id => history'[j] = history[i]]_vars

C27_Witness ==
    /\ finished.stored.id = 1 /\ history /= <<>> /\ history[1] = finished.stored
    /\ Did(0, "slider") /\ Recent(0).pre = finished.stored.cameraState
    /\ state /= finished.stored.cameraState
    /\ finished.call.sent[1].text.telemetry = finished.stored.prompt
    /\ finished.stored.prompt /= generatedPrompt

\* C28: only successful generations are recorded: a generation that rejects,
\* whatever the error, an exhausted quota included, leaves the history
\* unchanged, and selecting a history entry changes neither the contents nor
\* the order of the history.
C28_OnlySuccessRecorded ==
    /\ [][(finished' /= finished /\ finished'.call.at = "rejected")
          => history' = history /\ recorded' = recorded]_vars
    /\ [][recorded' > recorded
          => finished'.call.at = "resolved" /\ history'[1] = finished'.stored]_vars
    /\ [][HistorySelect => history' = history]_vars

C28_Witness ==
    /\ finished.id = 2 /\ finished.call.at = "rejected"
    /\ finished.call.calls = MAX_RETRIES /\ isRateLimit(finished.call.lastError)
    /\ Len(history) = 1 /\ history[1].id = 1

\* flow id is in its generateImage call; some flow waits in its catch block
\* for the key dialog it opened
InCall(id) == \E i \in 1..Len(flows) : flows[i].id = id /\ flows[i].pc = "service"
Reselecting == \E i \in 1..Len(flows) : flows[i].pc = "reselect"

Orbit(prompt) == SelectSeq(prompt, LAMBDA g : g.tag = "AZIMUTH_TRANSFORM")

\* C30: outside the composite special case, the compiled prompt contains the
\* orbit segment if and only if |rotate| exceeds the dead-zone of 5 degrees;
\* the segment names the signed direction and the magnitude in whole degrees.
C30_OrbitOutsideDeadZone ==
    (compiled /= <<>> /\ ~InComposite(state))
    => /\ Len(Orbit(compiled)) = (IF Abs(state.rotate) > 50 THEN 1 ELSE 0)
       /\ \A i \in 1..Len(Orbit(compiled)) :
              /\ Orbit(compiled)[i].word
                   = (IF state.rotate > 0 THEN "clockwise" ELSE "counter-clockwise")
              /\ Orbit(compiled)[i].num % 10 = 0
              /\ Abs(Orbit(compiled)[i].num - Abs(state.rotate)) <= 5

\* what the code does: the segment is there for every rotate other than 0,
\* with the direction and the magnitude as it is
OrbitUnlessZero ==
    (compiled /= <<>> /\ ~InComposite(state))
    => /\ Len(Orbit(compiled)) = (IF state.rotate /= 0 THEN 1 ELSE 0)
       /\ \A i \in 1..Len(Orbit(compiled)) :
              /\ Orbit(compiled)[i].word
                   = (IF state.rotate > 0 THEN "clockwise" ELSE "counter-clockwise")
              /\ Orbit(compiled)[i].num = Abs(state.rotate)

=============================================================================
